---- MODULE Spec2Model ----
(***************************************************************************)
(* A model of qiskit/transpiler/_transpiler.py (transpile, _transpilation, *)
(* transpile_dag, _best_subset, _matches_coupling_map, _pick_best_layout)  *)
(* and of StatevectorSimulator._run_job (backends/aer).                    *)
(* Python values are modelled as tagged records so that None, strings and  *)
(* containers can be compared: [kind |-> "none"], [kind |-> "ok", ...],    *)
(* [kind |-> "err", ...].                                                  *)
(***************************************************************************)
EXTENDS Integers, Sequences, FiniteSets, TLC

(* ---------------------------------------------------------------- bounds *)
\* Largest device (backend.configuration().n_qubits) explored.
MaxDev == 4
\* Largest number of directed coupling edges in an explored coupling map.
MaxEdges == 3

(* --------------------------------------------------------------- helpers *)
RECURSIVE SetToSortedSeq(_)
\* The elements of a finite set of integers in increasing order
\* (the column order of a canonical CSR row).
SetToSortedSeq(S) ==
    IF S = {} THEN <<>>
    ELSE LET m == CHOOSE x \in S : \A y \in S : x <= y
         IN  <<m>> \o SetToSortedSeq(S \ {m})

SeqRange(s) == {s[i] : i \in DOMAIN s}

RECURSIVE AppendUnvisited(_, _)
\* Append to node_list, in order, the nodes of cand that are not yet in it.
AppendUnvisited(node_list, cand) ==
    IF cand = <<>> THEN node_list
    ELSE IF Head(cand) \in SeqRange(node_list)
         THEN AppendUnvisited(node_list, Tail(cand))
         ELSE AppendUnvisited(Append(node_list, Head(cand)), Tail(cand))

\* All directed edges between distinct qubits of a device with dev qubits.
AllEdges(dev) == {e \in (0 .. dev - 1) \X (0 .. dev - 1) : e[1] # e[2]}

RECURSIVE EdgeSetsUpTo(_, _)
\* Every set of at most k directed edges on a device with dev qubits.
EdgeSetsUpTo(dev, k) ==
    IF k = 0 THEN {{}}
    ELSE LET prev == EdgeSetsUpTo(dev, k - 1)
         IN  prev \cup {s \cup {e} : s \in prev, e \in AllEdges(dev)}

(* ------------------------------------------------- scipy / numpy helpers *)
RECURSIVE BfsFromOutOnly(_, _, _)
\* The walk with directed=True: in-neighbours are not followed.
BfsFromOutOnly(edges, node_list, i) ==
    IF i > Len(node_list) THEN node_list
    ELSE BfsFromOutOnly(edges,
             AppendUnvisited(node_list,
                 SetToSortedSeq({e[2] : e \in {f \in edges : f[1] = node_list[i]}})),
             i + 1)

RECURSIVE BfsFrom(_, _, _)
\* scipy.sparse.csgraph.breadth_first_order(..., directed=False): for the
\* node at position i of node_list, the unvisited out-neighbours (CSR row,
\* increasing column) and then the unvisited in-neighbours (row of the
\* transpose) are appended; the walk ends when the list is exhausted.
BfsFrom(edges, node_list, i) ==
    IF i > Len(node_list) THEN node_list
    ELSE LET p    == node_list[i]
             outs == SetToSortedSeq({e[2] : e \in {f \in edges : f[1] = p}})
             ins  == SetToSortedSeq({e[1] : e \in {f \in edges : f[2] = p}})
         IN  BfsFrom(edges, AppendUnvisited(AppendUnvisited(node_list, outs), ins), i + 1)

breadth_first_order(edges, k) == BfsFrom(edges, <<k>>, 1)

RECURSIVE connection_count(_, _, _, _)
\* The inner loops of _best_subset over i in range(n_qubits), from i on:
\* for the i-th node of the prefix, one count per stored entry of its CSR
\* row whose column is among the first n_qubits nodes of bfs.
connection_count(edges, bfs, n_qubits, i) ==
    IF i > n_qubits THEN 0
    ELSE Cardinality({e \in edges : /\ e[1] = bfs[i]
                                    /\ \E counter \in 1 .. n_qubits : bfs[counter] = e[2]})
         + connection_count(edges, bfs, n_qubits, i + 1)

(* ---------------------------------------------------------- _best_subset *)
QiskitError(msg) == [kind |-> "err", err |-> "QiskitError", msg |-> msg, map |-> <<>>]
IndexError == [kind |-> "err", err |-> "IndexError", msg |-> "", map |-> <<>>]
OkMap(m) == [kind |-> "ok", err |-> "", msg |-> "", map |-> m]
\* best_map is still None when the loop ends.
NoneMap == [kind |-> "none", err |-> "", msg |-> "", map |-> <<>>]

RECURSIVE best_subset_loop(_, _, _, _, _, _)
\* The loop "for k in range(sp_cmap.shape[0])" from root k on, with the
\* running best and best_map.  bfs[i] raises IndexError as soon as a root's
\* breadth-first order has fewer than n_qubits nodes.
best_subset_loop(dev, edges, n_qubits, k, best, best_map) ==
    IF k >= dev THEN best_map
    ELSE LET bfs == breadth_first_order(edges, k)
         IN  IF Len(bfs) < n_qubits THEN IndexError
             ELSE LET cc == connection_count(edges, bfs, n_qubits, 1)
                  IN  IF cc > best
                      THEN best_subset_loop(dev, edges, n_qubits, k + 1, cc,
                                            OkMap(SubSeq(bfs, 1, n_qubits)))
                      ELSE best_subset_loop(dev, edges, n_qubits, k + 1, best, best_map)

\* _best_subset without its check against the device's qubit count.
best_subset_no_capacity(dev, edges, n_qubits) ==
    IF n_qubits = 1 THEN OkMap(<<0>>)
    ELSE IF n_qubits <= 0 THEN QiskitError("Number of qubits <= 0.")
    ELSE IF edges = {} THEN IndexError
    ELSE best_subset_loop(dev, edges, n_qubits, 0, 0, NoneMap)

\* _best_subset(backend, n_qubits) for a backend with dev qubits and the
\* coupling map edges (the empty set: no usable coupling_map array, whose
\* cmap[:, 0] raises IndexError).
best_subset(dev, edges, n_qubits) ==
    IF n_qubits = 1 THEN OkMap(<<0>>)
    ELSE IF n_qubits <= 0 THEN QiskitError("Number of qubits <= 0.")
    ELSE IF n_qubits > dev THEN QiskitError("Number of qubits greater than device.")
    ELSE IF edges = {} THEN IndexError
    ELSE best_subset_loop(dev, edges, n_qubits, 0, 0, NoneMap)

(* ----------------------------------------------------- python-like values *)
\* None, for each kind of optional argument.
NoneLayout == [kind |-> "none", items |-> <<>>]
\* A layout dict, as the sequence of its (virtual qubit, physical index) items.
DictLayout(items) == [kind |-> "dict", items |-> items]
NoneCoupling == [kind |-> "none", edges |-> {}]
AllToAll == [kind |-> "all-to-all", edges |-> {}]
ListCoupling(edges) == [kind |-> "list", edges |-> edges]
NoneSeed == [kind |-> "none", val |-> 0]
IntSeed(v) == [kind |-> "int", val |-> v]
NonePassManager == [kind |-> "none", passes |-> <<>>]
PassManagerOf(passes) == [kind |-> "pm", passes |-> passes]

\* Python truthiness of a coupling_map value: None and [] are false, a
\* non-empty list and the string "all-to-all" are true.
CouplingTruthy(cm) == cm.kind = "all-to-all" \/ (cm.kind = "list" /\ cm.edges # {})

(* ------------------------------------------------------- circuits and dags *)
QReg(name, size) == [name |-> name, size |-> size]
Op(name, qargs) == [name |-> name, qargs |-> qargs]

RECURSIVE SumSizes(_)
\* sum([qreg.size for qreg in dag.qregs.values()])
SumSizes(qregs) == IF qregs = <<>> THEN 0 ELSE Head(qregs).size + SumSizes(Tail(qregs))

RECURSIVE QubitsOf(_)
\* The declared qubits (register name, index): registers in declaration
\* order, indices increasing within a register.
QubitsOf(qregs) ==
    IF qregs = <<>> THEN <<>>
    ELSE [i \in 1 .. Head(qregs).size |-> <<Head(qregs).name, i - 1>>] \o QubitsOf(Tail(qregs))

\* The position (from 0) of a declared qubit in QubitsOf.
FlatIndex(qregs, qb) ==
    LET qs == QubitsOf(qregs) IN (CHOOSE i \in DOMAIN qs : qs[i] = qb) - 1

RECURSIVE SelectIdx(_, _, _)
\* The subsequence of s at the positions >= i that are in keep.
SelectIdx(s, keep, i) ==
    IF i > Len(s) THEN <<>>
    ELSE (IF i \in keep THEN <<s[i]>> ELSE <<>>) \o SelectIdx(s, keep, i + 1)

\* DAGCircuit.fromQuantumCircuit: the registers and, per wire, the
\* operations in instruction order (kept as one topological order).
fromQuantumCircuit(circuit) == [qregs |-> circuit.qregs, ops |-> circuit.ops]

\* QuantumCircuit.fromDAGCircuit, with the layout attribute set on the dag.
fromDAGCircuit(dag, layout) == [qregs |-> dag.qregs, ops |-> dag.ops, layout |-> layout]

(* ------------------------------------------------------------------ passes *)
\* backend.configuration().basis_gates joined and split again.
Basis == {"u1", "u2", "u3", "cx", "id"}
Directives == {"measure", "barrier", "reset", "snapshot"}

\* One operation expanded into the basis.
ExpandOp(op) ==
    IF op.name \in Basis \cup Directives THEN <<op>>
    ELSE IF op.name = "h" THEN <<Op("u2", op.qargs)>>
    ELSE IF op.name = "swap"
         THEN <<Op("cx", op.qargs), Op("cx", <<op.qargs[2], op.qargs[1]>>), Op("cx", op.qargs)>>
    ELSE <<op>>

RECURSIVE ExpandOps(_)
ExpandOps(ops) == IF ops = <<>> THEN <<>> ELSE ExpandOp(Head(ops)) \o ExpandOps(Tail(ops))

\* DagUnroller(dag, DAGBackend(basis)).expand_gates()
expand_gates(dag) == [dag EXCEPT !.ops = ExpandOps(dag.ops)]

\* Positions of the measurements that are the last operation on their qubit.
LastMeasIdx(ops) ==
    {i \in DOMAIN ops : /\ ops[i].name = "measure"
                        /\ \A j \in DOMAIN ops : j > i => ops[i].qargs[1] \notin SeqRange(ops[j].qargs)}

\* remove_last_measurements(dag): the list of removed measurement nodes ...
removed_last_measurements(dag) == SelectIdx(dag.ops, LastMeasIdx(dag.ops), 1)
\* ... and the dag it leaves, in place.
remove_last_measurements(dag) ==
    [dag EXCEPT !.ops = SelectIdx(dag.ops, (DOMAIN dag.ops) \ LastMeasIdx(dag.ops), 1)]

\* The physical index a layout (its items) gives a virtual qubit.
LayoutGet(items, qb) == items[CHOOSE i \in DOMAIN items : items[i][1] = qb][2]
LayoutHas(items, qb) == \E i \in DOMAIN items : items[i][1] = qb

\* The device register the mapped circuit lives on.
PhysQubit(p) == <<"q", p>>

(* ------------------------------------------------------------------ router *)
\* The qubits a coupling graph holds: those some edge names.
CouplingNodes(edges) == {e[1] : e \in edges} \cup {e[2] : e \in edges}
Adjacent(edges, a, b) == <<a, b>> \in edges \/ <<b, a>> \in edges
Neighbours(edges, S) == {x \in CouplingNodes(edges) : \E a \in S : Adjacent(edges, a, x)}

RECURSIVE DistFrom(_, _, _, _, _)
\* Undirected distance from the frontier (at distance d) to target; -1 when
\* the target is not reachable.
DistFrom(edges, frontier, seen, target, d) ==
    IF target \in frontier THEN d
    ELSE IF frontier = {} THEN -1
    ELSE LET next == Neighbours(edges, frontier) \ seen
         IN  DistFrom(edges, next, seen \cup next, target, d + 1)

Dist(edges, a, b) == DistFrom(edges, {a}, {a}, b, 0)

\* The lowest-numbered neighbour of a on a shortest path to b.
NextHop(edges, a, b) ==
    LET cand == {x \in Neighbours(edges, {a}) : Dist(edges, x, b) = Dist(edges, a, b) - 1}
    IN  CHOOSE x \in cand : \A y \in cand : x <= y

\* A layout after the virtual qubits on physical a and b are exchanged.
SwapLayout(items, a, b) ==
    [i \in DOMAIN items |->
        <<items[i][1], IF items[i][2] = a THEN b ELSE IF items[i][2] = b THEN a ELSE items[i][2]>>]

RECURSIVE Pow2(_)
Pow2(d) == IF d = 0 THEN 1 ELSE 2 * Pow2(d - 1)

\* The d-th random choice of trial t under the generator state rng: a pure
\* function of (rng, t, d).
RngBit(rng, t, d) == ((rng + t) \div Pow2(d)) % 2

\* The state of one trial after the swap of physical a and x.
Swapped(st, a, x) ==
    [lay |-> SwapLayout(st.lay, a, x),
     out |-> Append(st.out, Op("swap", <<PhysQubit(a), PhysQubit(x)>>)),
     n   |-> st.n + 1,
     d   |-> st.d + 1,
     ok  |-> TRUE]

RECURSIVE BringAdjacent(_, _, _, _, _, _)
\* Insert swaps until the virtual qubits va and vb sit on coupled physical
\* qubits; each swap moves one of the two a step along a shortest path, the
\* random choice saying which.  st = [lay, out, n, d, ok].
BringAdjacent(edges, rng, t, st, va, vb) ==
    IF Adjacent(edges, LayoutGet(st.lay, va), LayoutGet(st.lay, vb)) THEN st
    ELSE IF Dist(edges, LayoutGet(st.lay, va), LayoutGet(st.lay, vb)) = -1
         THEN [st EXCEPT !.ok = FALSE]
    ELSE IF RngBit(rng, t, st.d) = 0
         THEN BringAdjacent(edges, rng, t,
                  Swapped(st, LayoutGet(st.lay, va),
                          NextHop(edges, LayoutGet(st.lay, va), LayoutGet(st.lay, vb))),
                  va, vb)
         ELSE BringAdjacent(edges, rng, t,
                  Swapped(st, LayoutGet(st.lay, vb),
                          NextHop(edges, LayoutGet(st.lay, vb), LayoutGet(st.lay, va))),
                  va, vb)

\* An operation on the physical qubits the layout gives its arguments.
MappedOp(items, op) ==
    Op(op.name, [i \in DOMAIN op.qargs |-> PhysQubit(LayoutGet(items, op.qargs[i]))])

\* The state of one trial with op emitted under its layout.
Emitted(st, op) == IF st.ok THEN [st EXCEPT !.out = Append(st.out, MappedOp(st.lay, op))] ELSE st

RECURSIVE RouteOps(_, _, _, _, _)
\* One trial's scan of the operations in topological order.
RouteOps(edges, rng, t, st, ops) ==
    IF ops = <<>> \/ ~st.ok THEN st
    ELSE RouteOps(edges, rng, t,
             Emitted(IF Len(Head(ops).qargs) = 2
                     THEN BringAdjacent(edges, rng, t, st, Head(ops).qargs[1], Head(ops).qargs[2])
                     ELSE st,
                     Head(ops)),
             Tail(ops))

\* trials=20 in the call of swap_mapper.
Trials == 20

RouterTrial(edges, rng, t, lay, ops) ==
    RouteOps(edges, rng, t, [lay |-> lay, out |-> <<>>, n |-> 0, d |-> 0, ok |-> TRUE], ops)

\* The index of the best trial among the results res: fewest swaps, the
\* earliest among equals; -1 when every trial failed.
BestTrial(res) ==
    IF \A t \in DOMAIN res : ~res[t].ok THEN -1
    ELSE CHOOSE t \in DOMAIN res :
            /\ res[t].ok
            /\ \A u \in DOMAIN res :
                 res[u].ok => (res[t].n < res[u].n \/ (res[t].n = res[u].n /\ t <= u))

\* The layout swap_mapper starts from: the caller's, or by default the
\* declared qubits on physical 0, 1, 2, ... in declaration order.
StartLayout(dag, initial_layout) ==
    IF initial_layout.kind = "none"
    THEN [i \in DOMAIN QubitsOf(dag.qregs) |-> <<QubitsOf(dag.qregs)[i], i - 1>>]
    ELSE initial_layout.items

MapperFailed(msg) ==
    [kind |-> "err", err |-> msg, dag |-> [qregs |-> <<>>, ops |-> <<>>],
     final_layout |-> NoneLayout, last_layout |-> NoneLayout]

\* What swap_mapper returns for the best of the trial results res, started
\* from the layout lay: the routed dag, the layout the routed circuit starts
\* in (the value transpile_dag names final_layout) and the layout the swaps
\* have left at its end (the value it names last_layout).
MapperResult(edges, lay, res, best) ==
    IF best = -1 THEN MapperFailed("UnroutableCircuit")
    ELSE [kind |-> "ok", err |-> "",
          dag |-> [qregs |-> <<QReg("q", Cardinality(CouplingNodes(edges)))>>, ops |-> res[best].out],
          final_layout |-> DictLayout(lay),
          last_layout |-> DictLayout(res[best].lay)]

\* The trials of the router from the layout lay.
MapFrom(edges, rng, lay, qs, ops) ==
    IF \E i \in DOMAIN qs : ~LayoutHas(lay, qs[i])
    THEN MapperFailed("MapperError")
    ELSE IF \E i \in DOMAIN lay : lay[i][2] \notin CouplingNodes(edges)
    THEN MapperFailed("MapperError")
    ELSE LET res == [t \in 0 .. Trials - 1 |-> RouterTrial(edges, rng, t, lay, ops)]
         IN  MapperResult(edges, lay, res, BestTrial(res))

\* swap_mapper(dag, coupling, initial_layout, trials=20, seed): the routed
\* dag on the device register and the two layouts of MapperResult.  rng is
\* the generator state the trials draw from: the seed when one is given.
swap_mapper(dag, edges, initial_layout, rng) ==
    MapFrom(edges, rng, StartLayout(dag, initial_layout), QubitsOf(dag.qregs), dag.ops)

(* ------------------------------------------------------------- optimizers *)
\* direction_mapper(dag, coupling): a cx against the direction of its
\* coupling edge is conjugated by basis changes on both qubits.
DirectOp(edges, op) ==
    IF op.name = "cx" /\ <<op.qargs[1][2], op.qargs[2][2]>> \notin edges
                      /\ <<op.qargs[2][2], op.qargs[1][2]>> \in edges
    THEN <<Op("u2", <<op.qargs[1]>>), Op("u2", <<op.qargs[2]>>),
           Op("cx", <<op.qargs[2], op.qargs[1]>>),
           Op("u2", <<op.qargs[1]>>), Op("u2", <<op.qargs[2]>>)>>
    ELSE <<op>>

RECURSIVE DirectOps(_, _)
DirectOps(edges, ops) ==
    IF ops = <<>> THEN <<>> ELSE DirectOp(edges, Head(ops)) \o DirectOps(edges, Tail(ops))

direction_mapper(dag, edges) == [dag EXCEPT !.ops = DirectOps(edges, dag.ops)]

\* The next position after i, outside gone, whose operation touches qubit q; 0 if none.
NextOnWire(ops, gone, i, q) ==
    LET later == {j \in DOMAIN ops : j > i /\ j \notin gone /\ q \in SeqRange(ops[j].qargs)}
    IN  IF later = {} THEN 0 ELSE CHOOSE j \in later : \A k \in later : j <= k

\* The last position before i whose operation touches qubit q; 0 if none.
PrevOnWire(ops, i, q) ==
    LET earlier == {j \in DOMAIN ops : j < i /\ q \in SeqRange(ops[j].qargs)}
    IN  IF earlier = {} THEN 0 ELSE CHOOSE j \in earlier : \A k \in earlier : j >= k

RECURSIVE CancelFrom(_, _, _)
\* One forward pass: a cx directly followed, on both its wires, by the same
\* cx goes away together with it.  The positions removed.
CancelFrom(ops, i, gone) ==
    IF i > Len(ops) THEN gone
    ELSE IF i \in gone \/ ops[i].name # "cx" THEN CancelFrom(ops, i + 1, gone)
    ELSE LET j1 == NextOnWire(ops, gone, i, ops[i].qargs[1])
             j2 == NextOnWire(ops, gone, i, ops[i].qargs[2])
         IN  IF j1 # 0 /\ j1 = j2 /\ ops[j1] = ops[i]
             THEN CancelFrom(ops, i + 1, gone \cup {i, j1})
             ELSE CancelFrom(ops, i + 1, gone)

\* cx_cancellation(dag), in place.
cx_cancellation(dag) ==
    [dag EXCEPT !.ops = SelectIdx(dag.ops, (DOMAIN dag.ops) \ CancelFrom(dag.ops, 1, {}), 1)]

OneQubitGates == {"u1", "u2", "u3"}

\* Whether position i continues a run of single-qubit gates on its qubit.
ContinuesRun(ops, i) ==
    /\ ops[i].name \in OneQubitGates
    /\ LET p == PrevOnWire(ops, i, ops[i].qargs[1])
       IN  p # 0 /\ ops[p].name \in OneQubitGates

\* Whether position i starts a run of at least two single-qubit gates.
StartsRun(ops, i) ==
    /\ ops[i].name \in OneQubitGates
    /\ ~ContinuesRun(ops, i)
    /\ LET n == NextOnWire(ops, {}, i, ops[i].qargs[1])
       IN  n # 0 /\ ops[n].name \in OneQubitGates

\* optimize_1q_gates(dag): each run of adjacent single-qubit gates on one
\* qubit becomes one u3 at the place of its first gate.
optimize_1q_gates(dag) ==
    LET ops   == dag.ops
        fused == [i \in DOMAIN ops |-> IF StartsRun(ops, i) THEN Op("u3", ops[i].qargs) ELSE ops[i]]
    IN  [dag EXCEPT !.ops = SelectIdx(fused, {i \in DOMAIN ops : ~ContinuesRun(ops, i)}, 1)]

\* return_last_measurements(dag, removed_meas, last_layout): each removed
\* measurement is applied at the back, on the qubit the layout gives it.
return_last_measurements(dag, removed_meas, layout) ==
    [dag EXCEPT !.ops = dag.ops \o
        [i \in DOMAIN removed_meas |->
            Op("measure", <<PhysQubit(LayoutGet(layout.items, removed_meas[i].qargs[1]))>>)]]

(* ------------------------------------------------------------ pass manager *)
\* One pass of a pass manager, by name.
RunPass(name, dag) ==
    IF name = "CXCancellation" THEN cx_cancellation(dag)
    ELSE IF name = "Optimize1qGates" THEN optimize_1q_gates(dag)
    ELSE dag

RECURSIVE run_passes(_, _)
\* PassManager.run_passes(dag): the passes of its list, in order.
run_passes(passes, dag) ==
    IF passes = <<>> THEN dag ELSE run_passes(Tail(passes), RunPass(Head(passes), dag))

(* --------------------------------------------------- _matches_coupling_map *)
MatchValue(b) == [kind |-> "ok", val |-> b, err |-> ""]
MatchTypeError == [kind |-> "err", val |-> FALSE, err |-> "TypeError"]

RECURSIVE matches_loop(_, _)
\* The loop over the op nodes: gate_map keeps only the index qr[1] of each
\* qubit argument; "gate_map not in coupling_map" raises TypeError when
\* coupling_map is None or a string, and the first miss ends the loop.
matches_loop(ops, coupling_map) ==
    IF ops = <<>> THEN MatchValue(TRUE)
    ELSE LET gate_map == [i \in DOMAIN Head(ops).qargs |-> Head(ops).qargs[i][2]]
         IN  IF Len(gate_map) > 1
             THEN IF coupling_map.kind # "list" THEN MatchTypeError
                  ELSE IF gate_map \notin coupling_map.edges THEN MatchValue(FALSE)
                  ELSE matches_loop(Tail(ops), coupling_map)
             ELSE matches_loop(Tail(ops), coupling_map)

matches_coupling_map(dag, coupling_map) == matches_loop(dag.ops, coupling_map)

(* ------------------------------------------------------- _pick_best_layout *)
\* The counter map_iter starting again at every register.
pick_best_layout_per_register(dag, backend) ==
    LET best_sub == best_subset(backend.n_qubits, backend.coupling_map.edges, SumSizes(dag.qregs))
        qs       == QubitsOf(dag.qregs)
    IN  IF best_sub.kind = "err" THEN [kind |-> "err", err |-> best_sub.err, layout |-> NoneLayout]
        ELSE IF best_sub.kind = "none" THEN [kind |-> "err", err |-> "TypeError", layout |-> NoneLayout]
        ELSE [kind |-> "ok", err |-> "",
              layout |-> DictLayout([j \in DOMAIN qs |-> <<qs[j], best_sub.map[qs[j][2] + 1]>>])]

\* _pick_best_layout(dag, backend): the j-th declared qubit gets
\* best_sub[j]; an error of _best_subset propagates, and a best_sub of None
\* cannot be indexed.
pick_best_layout(dag, backend) ==
    LET num_qubits == SumSizes(dag.qregs)
        best_sub   == best_subset(backend.n_qubits, backend.coupling_map.edges, num_qubits)
        qs         == QubitsOf(dag.qregs)
    IN  IF best_sub.kind = "err" THEN [kind |-> "err", err |-> best_sub.err, layout |-> NoneLayout]
        ELSE IF best_sub.kind = "none" THEN [kind |-> "err", err |-> "TypeError", layout |-> NoneLayout]
        ELSE [kind |-> "ok", err |-> "",
              layout |-> DictLayout([j \in DOMAIN qs |-> <<qs[j], best_sub.map[j]>>])]

(* --------------------------------------------------------------- transpile *)
\* coupling_map = coupling_map or getattr(backend.configuration(), 'coupling_map', None)
ResolveCoupling(coupling_map, backend) ==
    IF CouplingTruthy(coupling_map) THEN coupling_map ELSE backend.coupling_map

\* The tasks given no seed.
TaskSeedDropped(seed_mapper) == NoneSeed
\* The seed_mapper every task of parallel_map is given.
TaskSeed(seed_mapper) == seed_mapper

(* ----------------------------------------------------------- _transpilation *)
\* The condition without its test of the backend being a simulator.
NeedsMatchAnyBackend(initial_layout, backend) == initial_layout.kind = "none"

\* The condition of the layout selection: the coupling map is matched only
\* when no layout was given and the backend is no simulator (and binds the
\* outcome of the match).
NeedsMatch(initial_layout, backend) == initial_layout.kind = "none" /\ ~backend.simulator

\* final_dag.layout: the items of the final layout, or None when it is falsy.
LayoutAttribute(final_layout) ==
    IF final_layout.kind = "dict" /\ final_layout.items # <<>> THEN final_layout ELSE NoneLayout

(* ------------------------------------------------------------ transpile_dag *)
\* if num_qubits == 1 or coupling_map == "all-to-all": coupling_map = None
\* The normalisation without its test of the number of qubits.
NormalizeCouplingAllToAllOnly(num_qubits, coupling_map) ==
    IF coupling_map.kind = "all-to-all" THEN NoneCoupling ELSE coupling_map
NormalizeCoupling(num_qubits, coupling_map) ==
    IF num_qubits = 1 \/ coupling_map.kind = "all-to-all" THEN NoneCoupling ELSE coupling_map

\* The test read as one of the number of passes.
UsesPassManagerEmptyFalse(pass_manager) == pass_manager.kind = "pm" /\ pass_manager.passes # <<>>
\* "if pass_manager:": a PassManager instance is true, with or without passes.
UsesPassManager(pass_manager) == pass_manager.kind = "pm"

\* The default branch with direction correction and cx cancellation exchanged.
AfterStepSwapped(pc, coupling_map) ==
    CASE pc = "unroll" -> IF CouplingTruthy(coupling_map) THEN "remove_last_measurements" ELSE "return"
      [] pc = "remove_last_measurements" -> "swap_mapper"
      [] pc = "swap_mapper" -> "expand_swaps"
      [] pc = "expand_swaps" -> "cx_cancellation"
      [] pc = "cx_cancellation" -> "direction_mapper"
      [] pc = "direction_mapper" -> "optimize_1q_gates"
      [] pc = "optimize_1q_gates" -> "return_last_measurements"
      [] pc = "return_last_measurements" -> "return"
\* The default branch without the cx cancellation.
AfterStepNoCancel(pc, coupling_map) ==
    CASE pc = "unroll" -> IF CouplingTruthy(coupling_map) THEN "remove_last_measurements" ELSE "return"
      [] pc = "remove_last_measurements" -> "swap_mapper"
      [] pc = "swap_mapper" -> "expand_swaps"
      [] pc = "expand_swaps" -> "direction_mapper"
      [] pc = "direction_mapper" -> "optimize_1q_gates"
      [] pc = "cx_cancellation" -> "optimize_1q_gates"
      [] pc = "optimize_1q_gates" -> "return_last_measurements"
      [] pc = "return_last_measurements" -> "return"
\* The default branch without the reattachment of the measurements.
AfterStepNoReattach(pc, coupling_map) ==
    CASE pc = "unroll" -> IF CouplingTruthy(coupling_map) THEN "remove_last_measurements" ELSE "return"
      [] pc = "remove_last_measurements" -> "swap_mapper"
      [] pc = "swap_mapper" -> "expand_swaps"
      [] pc = "expand_swaps" -> "direction_mapper"
      [] pc = "direction_mapper" -> "cx_cancellation"
      [] pc = "cx_cancellation" -> "optimize_1q_gates"
      [] pc = "optimize_1q_gates" -> "return"
      [] pc = "return_last_measurements" -> "return"
\* The position after each step of the default branch; "if coupling_map:"
\* decides after the first unroll.
AfterStep(pc, coupling_map) ==
    CASE pc = "unroll" -> IF CouplingTruthy(coupling_map) THEN "remove_last_measurements" ELSE "return"
      [] pc = "remove_last_measurements" -> "swap_mapper"
      [] pc = "swap_mapper" -> "expand_swaps"
      [] pc = "expand_swaps" -> "direction_mapper"
      [] pc = "direction_mapper" -> "cx_cancellation"
      [] pc = "cx_cancellation" -> "optimize_1q_gates"
      [] pc = "optimize_1q_gates" -> "return_last_measurements"
      [] pc = "return_last_measurements" -> "return"

\* The generator state the router draws from: the seed when the caller gave
\* one, whatever the unseeded generator holds otherwise.
RngOf(seed, entropy) == IF seed.kind = "int" THEN seed.val ELSE entropy

(* ------------------------------------------- the functions, as one value *)
DagResult(dag, fl) == [kind |-> "ok", err |-> "", dag |-> dag, final_layout |-> fl]
DagRaised(e) == [kind |-> "err", err |-> e, dag |-> [qregs |-> <<>>, ops |-> <<>>], final_layout |-> NoneLayout]
EmptyCircuit == [qregs |-> <<>>, ops |-> <<>>, layout |-> NoneLayout]
OutPending == [kind |-> "pending", err |-> "", circuit |-> EmptyCircuit]
OutRaised(e) == [kind |-> "err", err |-> e, circuit |-> EmptyCircuit]
OutCircuit(c) == [kind |-> "ok", err |-> "", circuit |-> c]

\* transpile_dag, lines 186-197, for the outcome r of swap_mapper.
AfterMapper(r, removed, edges) ==
    IF r.kind = "err" THEN DagRaised(r.err)
    ELSE DagResult(return_last_measurements(
                       optimize_1q_gates(cx_cancellation(direction_mapper(expand_gates(r.dag), edges))),
                       removed, r.last_layout),
                   r.final_layout)

\* transpile_dag, lines 170-199, on the unrolled dag.
DefaultPasses(unrolled, coupling_map, initial_layout, rng) ==
    IF CouplingTruthy(coupling_map)
    THEN AfterMapper(swap_mapper(remove_last_measurements(unrolled), coupling_map.edges,
                                 initial_layout, rng),
                     removed_last_measurements(unrolled), coupling_map.edges)
    ELSE DagResult(unrolled, NoneLayout)

\* transpile_dag(dag, coupling_map=..., initial_layout=..., get_layout=True,
\* seed_mapper=..., pass_manager=...): the dag and the final layout.
transpile_dag(dag, coupling_map, initial_layout, rng, pass_manager) ==
    IF UsesPassManager(pass_manager)
    THEN DagResult(run_passes(pass_manager.passes, dag), NoneLayout)
    ELSE DefaultPasses(expand_gates(dag),
                       NormalizeCoupling(SumSizes(dag.qregs), coupling_map), initial_layout, rng)

\* _transpilation, lines 101-106, for the outcome r of transpile_dag.
Finished(r) ==
    IF r.kind = "err" THEN OutRaised(r.err)
    ELSE OutCircuit(fromDAGCircuit(r.dag, LayoutAttribute(r.final_layout)))

\* _transpilation, line 93 on, for the outcome p of _pick_best_layout.
WithPicked(p, dag, coupling_map, rng, pass_manager) ==
    IF p.kind = "err" THEN OutRaised(p.err)
    ELSE Finished(transpile_dag(dag, coupling_map, p.layout, rng, pass_manager))

\* _transpilation, lines 92 on, for the outcome m of _matches_coupling_map.
WithMatch(m, dag, backend, coupling_map, rng, pass_manager) ==
    IF m.kind = "err" THEN OutRaised(m.err)
    ELSE IF m.val THEN Finished(transpile_dag(dag, coupling_map, NoneLayout, rng, pass_manager))
    ELSE WithPicked(pick_best_layout(dag, backend), dag, coupling_map, rng, pass_manager)

\* _transpilation(circuit, backend, ...): the circuit returned or the error
\* raised; rng is the state of the generator the router draws from.
transpilation(circuit, backend, coupling_map, initial_layout, rng, pass_manager) ==
    IF NeedsMatch(initial_layout, backend)
    THEN WithMatch(matches_coupling_map(fromQuantumCircuit(circuit), coupling_map),
                   fromQuantumCircuit(circuit), backend, coupling_map, rng, pass_manager)
    ELSE Finished(transpile_dag(fromQuantumCircuit(circuit), coupling_map, initial_layout,
                                rng, pass_manager))

\* parallel_map(task, values, ...): one result per value, in the order of
\* the values; an exception of a task is raised to the caller, that of the
\* lowest index first.
ParallelMapResult(results) ==
    IF \E i \in DOMAIN results : results[i].kind = "err"
    THEN [kind |-> "err",
          err |-> results[CHOOSE i \in DOMAIN results :
                            /\ results[i].kind = "err"
                            /\ \A j \in DOMAIN results : results[j].kind = "err" => i <= j].err,
          circuits |-> <<>>]
    ELSE [kind |-> "list", err |-> "", circuits |-> [i \in DOMAIN results |-> results[i].circuit]]

\* transpile returning the list although one circuit was passed.
ReturnFormAlwaysList(circuits, return_form_is_single) == circuits
\* transpile, lines 67-69: the first circuit alone when one circuit was
\* passed, the list otherwise.
ReturnForm(circuits, return_form_is_single) ==
    IF circuits.kind = "list" /\ return_form_is_single
    THEN [kind |-> "single", err |-> "", circuits |-> <<circuits.circuits[1]>>]
    ELSE circuits

(* ---------------------------------------------------------------- inputs *)
\* Longest instruction list of an explored circuit.
MaxOps == 2
\* The unseeded generator holds one of the states 0 .. MaxEntropy.
MaxEntropy == 1

RECURSIVE SeqsUpTo(_, _)
\* Every sequence over S of length at most k.
SeqsUpTo(S, k) ==
    IF k = 0 THEN {<<>>}
    ELSE LET prev == SeqsUpTo(S, k - 1)
         IN  prev \cup {Append(s, x) : s \in prev, x \in S}

\* The register declarations explored: one qubit, one register of two, and
\* two registers whose qubits share the index 0.
QregConfigs == {<<QReg("q", 1)>>, <<QReg("q", 2)>>, <<QReg("a", 1), QReg("b", 2)>>}

\* The instructions a circuit over these registers may hold.
OpsOver(qregs) ==
    LET qs == SeqRange(QubitsOf(qregs))
    IN  {Op(n, <<q>>) : n \in {"h", "measure"}, q \in qs}
        \cup {Op("cx", <<e[1], e[2]>>) : e \in {f \in qs \X qs : f[1] # f[2]}}

Circuits == UNION {{[qregs |-> r, ops |-> o] : o \in SeqsUpTo(OpsOver(r), MaxOps)} : r \in QregConfigs}

Line == {<<0, 1>>, <<1, 2>>}
Fork == {<<1, 0>>, <<1, 2>>}
\* backend.configuration(): a simulator without coupling map, and a device
\* of three qubits.
Simulator == [simulator |-> TRUE, n_qubits |-> 3, coupling_map |-> NoneCoupling]
Device(edges) == [simulator |-> FALSE, n_qubits |-> 3, coupling_map |-> ListCoupling(edges)]
Backends == {Simulator, Device(Fork)}
CouplingArgs == {NoneCoupling, AllToAll, ListCoupling(Line)}
Seeds == {NoneSeed, IntSeed(1)}
PassManagers == {NonePassManager, PassManagerOf(<<>>), PassManagerOf(<<"CXCancellation">>)}

\* A caller's layout: the declared qubits on the first physical qubits, in
\* reverse order.
ReversedLayout(qregs) ==
    LET qs == QubitsOf(qregs) IN DictLayout([i \in DOMAIN qs |-> <<qs[i], Len(qs) - i>>])

(* ------------------------------------------------------------- variables *)
VARIABLES
    bs_in,          \* the arguments of a _best_subset call: [dev, edges, n]
    bs_out,         \* its outcome, or Pending before the call
    t_in,           \* the arguments of transpile for one circuit
    pc,             \* the position in transpile / _transpilation / transpile_dag
    cm_res,         \* transpile: coupling_map after "or" with the backend's
    dag,            \* the dag being transformed
    layout,         \* _transpilation: initial_layout
    cmap,           \* transpile_dag: its local coupling_map
    removed_meas,   \* transpile_dag: removed_meas
    final_layout,   \* transpile_dag: final_layout
    last_layout,    \* transpile_dag: last_layout
    trace,          \* the passes run so far, in order
    pick_called,    \* whether _pick_best_layout was invoked
    match_res,      \* the outcome of _matches_coupling_map, once evaluated
    out,            \* what transpile returns or raises
    b_in,           \* the arguments of transpile for a batch
    b_res,          \* per run and circuit index, the outcome of its task
    b_order,        \* first run: the circuit indices in order of completion
    b_out,          \* per run, what transpile returned or raised
    sv_qobj,        \* StatevectorSimulator._run_job: the qobj it is given
    sv_before,      \* the instruction list of each experiment before the call
    sv_pc,          \* the position of _run_job
    sv_i,           \* the experiment the running loop is at
    sv_result       \* what the simulator run has produced

subset_vars == <<bs_in, bs_out>>
pipe_vars == <<t_in, pc, cm_res, dag, layout, cmap, removed_meas, final_layout,
               last_layout, trace, pick_called, match_res, out>>
batch_vars == <<b_in, b_res, b_order, b_out>>
sim_vars == <<sv_qobj, sv_before, sv_pc, sv_i, sv_result>>
vars == <<subset_vars, pipe_vars, batch_vars, sim_vars>>

Pending == [kind |-> "pending", err |-> "", msg |-> "", map |-> <<>>]
EmptyDag == [qregs |-> <<>>, ops |-> <<>>]
Unevaluated == [kind |-> "unevaluated", val |-> FALSE, err |-> ""]
DefaultPass(name) == [by |-> "default", name |-> name]
CustomPass(name) == [by |-> "pm", name |-> name]

\* The variables of a specification that is not running.
SubsetIdle == bs_in = [dev |-> 1, edges |-> {}, n |-> 1] /\ bs_out = Pending
PipeIdle ==
    /\ t_in = [circuit |-> [qregs |-> <<>>, ops |-> <<>>], backend |-> Simulator,
               coupling_map |-> NoneCoupling, initial_layout |-> NoneLayout,
               seed_mapper |-> NoneSeed, pass_manager |-> NonePassManager]
    /\ pc = "idle"
    /\ cm_res = NoneCoupling
    /\ dag = EmptyDag
    /\ layout = NoneLayout
    /\ cmap = NoneCoupling
    /\ removed_meas = <<>>
    /\ final_layout = NoneLayout
    /\ last_layout = NoneLayout
    /\ trace = <<>>
    /\ pick_called = FALSE
    /\ match_res = Unevaluated
    /\ out = OutPending

\* Longest batch of circuits explored.
MaxBatch == 2
Runs == {1, 2}
BatchPending == [kind |-> "pending", err |-> "", circuits |-> <<>>]
BatchIdle ==
    /\ b_in = [circuits |-> <<>>, single |-> FALSE, backend |-> Simulator,
               coupling_map |-> NoneCoupling, seed_mapper |-> NoneSeed]
    /\ b_res = <<>>
    /\ b_order = <<>>
    /\ b_out = <<>>

(* --------------------------------------- StatevectorSimulator._run_job *)
\* Most experiments of an explored qobj, and most instructions of one.
MaxExps == 2
MaxInstr == 2

Instr(name, params) == [name |-> name, params |-> params]
\* final_state_key = 32767
final_state_key == 32767
\* QobjInstruction(name='snapshot', params=[final_state_key], ...)
FinalSnapshot == Instr("snapshot", <<final_state_key>>)
\* The instructions of the explored experiments; a snapshot of the caller's
\* own is among them.
Instrs == {Instr("h", <<>>), Instr("measure", <<>>), Instr("snapshot", <<0>>)}
Experiment(instructions, shots) == [instructions |-> instructions, shots |-> shots]
Shots == {1, 2}

\* StatevectorSimulator._validate: a measure or reset in an experiment
\* raises SimulatorError ...
Offending(qobj) ==
    {i \in DOMAIN qobj.experiments : \E j \in DOMAIN qobj.experiments[i].instructions :
        qobj.experiments[i].instructions[j].name \in {"measure", "reset"}}
ValidateRaises(qobj) == Offending(qobj) # {}
\* ... and the shots of the qobj, and of every experiment up to the first
\* that raises, are set to 1.
ValidatedShots(qobj) ==
    [qobj EXCEPT !.shots = 1,
                 !.experiments = [i \in DOMAIN qobj.experiments |->
                                     IF \E f \in Offending(qobj) : f < i
                                     THEN qobj.experiments[i]
                                     ELSE [qobj.experiments[i] EXCEPT !.shots = 1]]]

\* The removal read as one of every snapshot instruction.
DelSnapshots(instructions) == SelectSeq(instructions, LAMBDA x : x.name # "snapshot")
\* del experiment.instructions[-1]
DelLast(instructions) == SubSeq(instructions, 1, Len(instructions) - 1)

SimIdle ==
    /\ sv_qobj = [shots |-> 1, experiments |-> <<>>]
    /\ sv_before = <<>>
    /\ sv_pc = "idle"
    /\ sv_i = 0
    /\ sv_result = "none"

(* ------------------------------------------- specification: _best_subset *)
SubsetInit ==
    /\ bs_in \in {[dev |-> d, edges |-> es, n |-> n] :
                    d \in 1 .. MaxDev,
                    es \in EdgeSetsUpTo(MaxDev, MaxEdges),
                    n \in -1 .. MaxDev + 1}
    /\ bs_in.edges \subseteq AllEdges(bs_in.dev)
    /\ bs_in.dev = 1 \/ bs_in.edges # {}
    /\ bs_out = Pending
    /\ PipeIdle
    /\ BatchIdle
    /\ SimIdle

CallBestSubset ==
    /\ bs_out = Pending
    /\ bs_out' = best_subset(bs_in.dev, bs_in.edges, bs_in.n)
    /\ UNCHANGED <<bs_in, pipe_vars, batch_vars, sim_vars>>

SubsetNext == CallBestSubset

SpecSubset == SubsetInit /\ [][SubsetNext]_vars

(* ------------------------- specification: transpile of one circuit (Spec) *)
Init ==
    /\ t_in \in {[circuit |-> c, backend |-> b, coupling_map |-> cm,
                  initial_layout |-> IF given THEN ReversedLayout(c.qregs) ELSE NoneLayout,
                  seed_mapper |-> s, pass_manager |-> pm] :
                    c \in Circuits, b \in Backends, cm \in CouplingArgs,
                    given \in BOOLEAN, s \in Seeds, pm \in PassManagers}
    /\ pc = "transpile"
    /\ cm_res = NoneCoupling
    /\ dag = EmptyDag
    /\ layout = NoneLayout
    /\ cmap = NoneCoupling
    /\ removed_meas = <<>>
    /\ final_layout = NoneLayout
    /\ last_layout = NoneLayout
    /\ trace = <<>>
    /\ pick_called = FALSE
    /\ match_res = Unevaluated
    /\ out = OutPending
    /\ SubsetIdle
    /\ BatchIdle
    /\ SimIdle

\* transpile, lines 46-58: the coupling map falls back to the backend's.
Transpile ==
    /\ pc = "transpile"
    /\ cm_res' = ResolveCoupling(t_in.coupling_map, t_in.backend)
    /\ pc' = "transpilation"
    /\ UNCHANGED <<t_in, dag, layout, cmap, removed_meas, final_layout, last_layout,
                   trace, pick_called, match_res, out, subset_vars, batch_vars, sim_vars>>

\* _transpilation, lines 90-92: the dag is built and the condition of the
\* layout selection is evaluated, left to right.
TranspilationBegin ==
    /\ pc = "transpilation"
    /\ dag' = fromQuantumCircuit(t_in.circuit)
    /\ layout' = t_in.initial_layout
    /\ IF NeedsMatch(t_in.initial_layout, t_in.backend)
       THEN LET m == matches_coupling_map(dag', cm_res)
            IN  /\ match_res' = m
                /\ pc' = IF m.kind = "err" THEN "raised" ELSE IF m.val THEN "transpile_dag" ELSE "pick"
                /\ out' = IF m.kind = "err" THEN OutRaised(m.err) ELSE out
       ELSE /\ match_res' = match_res
            /\ pc' = "transpile_dag"
            /\ out' = out
    /\ UNCHANGED <<t_in, cm_res, cmap, removed_meas, final_layout, last_layout,
                   trace, pick_called, subset_vars, batch_vars, sim_vars>>

\* _transpilation, line 93.
PickBestLayout ==
    /\ pc = "pick"
    /\ pick_called' = TRUE
    /\ LET r == pick_best_layout(dag, t_in.backend)
       IN  /\ layout' = IF r.kind = "ok" THEN r.layout ELSE layout
           /\ pc' = IF r.kind = "ok" THEN "transpile_dag" ELSE "raised"
           /\ out' = IF r.kind = "ok" THEN out ELSE OutRaised(r.err)
    /\ UNCHANGED <<t_in, cm_res, dag, cmap, removed_meas, final_layout, last_layout,
                   trace, match_res, subset_vars, batch_vars, sim_vars>>

\* transpile_dag, lines 157-163.
TranspileDagEnter ==
    /\ pc = "transpile_dag"
    /\ cmap' = NormalizeCoupling(SumSizes(dag.qregs), cm_res)
    /\ final_layout' = NoneLayout
    /\ pc' = IF UsesPassManager(t_in.pass_manager) THEN "run_passes" ELSE "unroll"
    /\ UNCHANGED <<t_in, cm_res, dag, layout, removed_meas, last_layout,
                   trace, pick_called, match_res, out, subset_vars, batch_vars, sim_vars>>

\* transpile_dag, line 166.
RunPasses ==
    /\ pc = "run_passes"
    /\ dag' = run_passes(t_in.pass_manager.passes, dag)
    /\ trace' = trace \o [i \in DOMAIN t_in.pass_manager.passes |->
                            CustomPass(t_in.pass_manager.passes[i])]
    /\ pc' = "return"
    /\ UNCHANGED <<t_in, cm_res, layout, cmap, removed_meas, final_layout, last_layout,
                   pick_called, match_res, out, subset_vars, batch_vars, sim_vars>>

\* transpile_dag, lines 170-175.
Unroll ==
    /\ pc = "unroll"
    /\ dag' = expand_gates(dag)
    /\ trace' = Append(trace, DefaultPass("unroll"))
    /\ pc' = AfterStep("unroll", cmap)
    /\ UNCHANGED <<t_in, cm_res, layout, cmap, removed_meas, final_layout, last_layout,
                   pick_called, match_res, out, subset_vars, batch_vars, sim_vars>>

\* transpile_dag, lines 179-180.
RemoveLastMeasurements ==
    /\ pc = "remove_last_measurements"
    /\ removed_meas' = removed_last_measurements(dag)
    /\ dag' = remove_last_measurements(dag)
    /\ trace' = Append(trace, DefaultPass("remove_last_measurements"))
    /\ pc' = AfterStep("remove_last_measurements", cmap)
    /\ UNCHANGED <<t_in, cm_res, layout, cmap, final_layout, last_layout,
                   pick_called, match_res, out, subset_vars, batch_vars, sim_vars>>

\* transpile_dag, lines 183-184; without a seed the generator is in any state.
SwapMapper ==
    /\ pc = "swap_mapper"
    /\ \E entropy \in 0 .. MaxEntropy :
         LET r == swap_mapper(dag, cmap.edges, layout, RngOf(TaskSeed(t_in.seed_mapper), entropy))
         IN  /\ dag' = IF r.kind = "ok" THEN r.dag ELSE dag
             /\ final_layout' = r.final_layout
             /\ last_layout' = r.last_layout
             /\ pc' = IF r.kind = "ok" THEN AfterStep("swap_mapper", cmap) ELSE "raised"
             /\ out' = IF r.kind = "ok" THEN out ELSE OutRaised(r.err)
    /\ trace' = Append(trace, DefaultPass("swap_mapper"))
    /\ UNCHANGED <<t_in, cm_res, layout, cmap, removed_meas,
                   pick_called, match_res, subset_vars, batch_vars, sim_vars>>

\* transpile_dag, lines 187-189.
ExpandSwaps ==
    /\ pc = "expand_swaps"
    /\ dag' = expand_gates(dag)
    /\ trace' = Append(trace, DefaultPass("unroll"))
    /\ pc' = AfterStep("expand_swaps", cmap)
    /\ UNCHANGED <<t_in, cm_res, layout, cmap, removed_meas, final_layout, last_layout,
                   pick_called, match_res, out, subset_vars, batch_vars, sim_vars>>

\* transpile_dag, line 191.
DirectionMapper ==
    /\ pc = "direction_mapper"
    /\ dag' = direction_mapper(dag, cmap.edges)
    /\ trace' = Append(trace, DefaultPass("direction_mapper"))
    /\ pc' = AfterStep("direction_mapper", cmap)
    /\ UNCHANGED <<t_in, cm_res, layout, cmap, removed_meas, final_layout, last_layout,
                   pick_called, match_res, out, subset_vars, batch_vars, sim_vars>>

\* transpile_dag, line 193.
CxCancellation ==
    /\ pc = "cx_cancellation"
    /\ dag' = cx_cancellation(dag)
    /\ trace' = Append(trace, DefaultPass("cx_cancellation"))
    /\ pc' = AfterStep("cx_cancellation", cmap)
    /\ UNCHANGED <<t_in, cm_res, layout, cmap, removed_meas, final_layout, last_layout,
                   pick_called, match_res, out, subset_vars, batch_vars, sim_vars>>

\* transpile_dag, line 195.
Optimize1qGates ==
    /\ pc = "optimize_1q_gates"
    /\ dag' = optimize_1q_gates(dag)
    /\ trace' = Append(trace, DefaultPass("optimize_1q_gates"))
    /\ pc' = AfterStep("optimize_1q_gates", cmap)
    /\ UNCHANGED <<t_in, cm_res, layout, cmap, removed_meas, final_layout, last_layout,
                   pick_called, match_res, out, subset_vars, batch_vars, sim_vars>>

\* transpile_dag, lines 196-197.
ReturnLastMeasurements ==
    /\ pc = "return_last_measurements"
    /\ dag' = return_last_measurements(dag, removed_meas, last_layout)
    /\ trace' = Append(trace, DefaultPass("return_last_measurements"))
    /\ pc' = AfterStep("return_last_measurements", cmap)
    /\ UNCHANGED <<t_in, cm_res, layout, cmap, removed_meas, final_layout, last_layout,
                   pick_called, match_res, out, subset_vars, batch_vars, sim_vars>>

\* transpile_dag, lines 206-207, then _transpilation, lines 101-106, and
\* transpile, lines 67-68.
TranspilationFinish ==
    /\ pc = "return"
    /\ out' = OutCircuit(fromDAGCircuit(dag, LayoutAttribute(final_layout)))
    /\ pc' = "done"
    /\ UNCHANGED <<t_in, cm_res, dag, layout, cmap, removed_meas, final_layout, last_layout,
                   trace, pick_called, match_res, subset_vars, batch_vars, sim_vars>>

Next ==
    \/ Transpile
    \/ TranspilationBegin
    \/ PickBestLayout
    \/ TranspileDagEnter
    \/ RunPasses
    \/ Unroll
    \/ RemoveLastMeasurements
    \/ SwapMapper
    \/ ExpandSwaps
    \/ DirectionMapper
    \/ CxCancellation
    \/ Optimize1qGates
    \/ ReturnLastMeasurements
    \/ TranspilationFinish

Spec == Init /\ [][Next]_vars

(* ------------------------ specification: transpile of a batch (SpecBatch) *)
\* The circuits of the explored batches: one that needs a swap, one that
\* fits the device, one of a single gate, and one of four qubits, more than
\* the device has.
BatchCircuits ==
    {[qregs |-> <<QReg("a", 1), QReg("b", 2)>>,
      ops |-> <<Op("cx", <<<<"a", 0>>, <<"b", 1>>>>), Op("measure", <<<<"a", 0>>>>)>>],
     [qregs |-> <<QReg("q", 2)>>, ops |-> <<Op("cx", <<<<"q", 1>>, <<"q", 0>>>>)>>],
     [qregs |-> <<QReg("q", 1)>>, ops |-> <<Op("h", <<<<"q", 0>>>>)>>],
     [qregs |-> <<QReg("q", 4)>>, ops |-> <<Op("cx", <<<<"q", 0>>, <<"q", 3>>>>)>>]}

\* Two runs of transpile on the same arguments, each with its own workers.
BatchInit ==
    /\ b_in \in {[circuits |-> cs, single |-> sg, backend |-> Device(Fork),
                  coupling_map |-> NoneCoupling, seed_mapper |-> s] :
                    cs \in SeqsUpTo(BatchCircuits, MaxBatch) \ {<<>>},
                    sg \in BOOLEAN, s \in Seeds}
    /\ b_in.single => Len(b_in.circuits) = 1
    /\ b_res = [r \in Runs |-> [i \in DOMAIN b_in.circuits |-> OutPending]]
    /\ b_order = <<>>
    /\ b_out = [r \in Runs |-> BatchPending]
    /\ SubsetIdle
    /\ PipeIdle
    /\ SimIdle

\* A worker of run r completes the task of circuit i: _transpilation with
\* the arguments transpile gives every task (lines 60-66).
TaskRun(r, i) ==
    /\ b_out[r] = BatchPending
    /\ b_res[r][i] = OutPending
    /\ \E entropy \in 0 .. MaxEntropy :
         b_res' = [b_res EXCEPT ![r][i] =
                      transpilation(b_in.circuits[i], b_in.backend,
                                    ResolveCoupling(b_in.coupling_map, b_in.backend),
                                    NoneLayout,
                                    RngOf(TaskSeed(b_in.seed_mapper), entropy),
                                    NonePassManager)]
    /\ b_order' = IF r = 1 THEN Append(b_order, i) ELSE b_order
    /\ UNCHANGED <<b_in, b_out, subset_vars, pipe_vars, sim_vars>>

\* Run r: parallel_map returns once every task is complete, and transpile
\* returns (lines 67-69).
BatchReturn(r) ==
    /\ b_out[r] = BatchPending
    /\ \A i \in DOMAIN b_in.circuits : b_res[r][i] # OutPending
    /\ b_out' = [b_out EXCEPT ![r] = ReturnForm(ParallelMapResult(b_res[r]), b_in.single)]
    /\ UNCHANGED <<b_in, b_res, b_order, subset_vars, pipe_vars, sim_vars>>

BatchNext ==
    \/ \E r \in Runs, i \in DOMAIN b_in.circuits : TaskRun(r, i)
    \/ \E r \in Runs : BatchReturn(r)

SpecBatch == BatchInit /\ [][BatchNext]_vars

(* --------------- specification: StatevectorSimulator._run_job (SpecSim) *)
SimInit ==
    /\ sv_qobj \in {[shots |-> sh, experiments |-> [i \in DOMAIN iss |-> Experiment(iss[i], esh)]] :
                      sh \in Shots, esh \in Shots,
                      iss \in SeqsUpTo(SeqsUpTo(Instrs, MaxInstr), MaxExps) \ {<<>>}}
    /\ sv_before = [i \in DOMAIN sv_qobj.experiments |-> sv_qobj.experiments[i].instructions]
    /\ sv_pc = "validate"
    /\ sv_i = 0
    /\ sv_result = "none"
    /\ SubsetIdle
    /\ PipeIdle
    /\ BatchIdle

\* _run_job, line 63: self._validate(qobj).
SvValidate ==
    /\ sv_pc = "validate"
    /\ sv_qobj' = ValidatedShots(sv_qobj)
    /\ sv_pc' = IF ValidateRaises(sv_qobj) THEN "raised" ELSE "append"
    /\ sv_i' = 1
    /\ UNCHANGED <<sv_before, sv_result, subset_vars, pipe_vars, batch_vars>>

\* _run_job, lines 66-70: one turn of the loop that appends the snapshot.
SvAppend ==
    /\ sv_pc = "append"
    /\ sv_i <= Len(sv_qobj.experiments)
    /\ sv_qobj' = [sv_qobj EXCEPT !.experiments[sv_i].instructions = Append(@, FinalSnapshot)]
    /\ sv_i' = sv_i + 1
    /\ UNCHANGED <<sv_before, sv_pc, sv_result, subset_vars, pipe_vars, batch_vars>>

\* _run_job, line 71: super()._run_job(job_id, qobj), that is
\* QasmSimulator._run_job: the validation again, then the simulator run,
\* which returns a result with or without the final state, or raises (the
\* output of the executable is no JSON, or no result can be built of it).
SvSuperRunJob ==
    /\ sv_pc = "append"
    /\ sv_i > Len(sv_qobj.experiments)
    /\ \E r \in {"state", "no state", "raised"} :
         /\ sv_result' = IF ValidateRaises(sv_qobj) THEN "raised" ELSE r
         /\ sv_pc' = IF ValidateRaises(sv_qobj) \/ r = "raised" THEN "raised" ELSE "remove"
    /\ sv_qobj' = ValidatedShots(sv_qobj)
    /\ sv_i' = 1
    /\ UNCHANGED <<sv_before, subset_vars, pipe_vars, batch_vars>>

\* _run_job, lines 73-74: one turn of the loop that removes the snapshot.
SvRemove ==
    /\ sv_pc = "remove"
    /\ sv_i <= Len(sv_qobj.experiments)
    /\ sv_qobj' = [sv_qobj EXCEPT !.experiments[sv_i].instructions = DelLast(@)]
    /\ sv_i' = sv_i + 1
    /\ UNCHANGED <<sv_before, sv_pc, sv_result, subset_vars, pipe_vars, batch_vars>>

\* _run_job, lines 76-88: the final state is moved to the statevector field
\* of each result and the result is returned; a result without the final
\* state raises KeyError at pop.
SvExtract ==
    /\ sv_pc = "remove"
    /\ sv_i > Len(sv_qobj.experiments)
    /\ sv_pc' = IF sv_result = "state" THEN "returned" ELSE "raised"
    /\ UNCHANGED <<sv_qobj, sv_before, sv_i, sv_result, subset_vars, pipe_vars, batch_vars>>

SimNext ==
    \/ SvValidate
    \/ SvAppend
    \/ SvSuperRunJob
    \/ SvRemove
    \/ SvExtract

SpecSim == SimInit /\ [][SimNext]_vars

(* ================================================================ claims *)
InputDag == fromQuantumCircuit(t_in.circuit)
UnrolledInput == expand_gates(InputDag)

\* The operations of ops on the wire of qubit q, in order.
WireOps(ops, q) == SelectIdx(ops, {i \in DOMAIN ops : q \in SeqRange(ops[i].qargs)}, 1)
WiresOf(ops) == UNION {SeqRange(ops[i].qargs) : i \in DOMAIN ops}
\* Two topological orders of the same graph: the same operations in the
\* same order on every wire.
SameGraph(ops1, ops2) ==
    /\ Len(ops1) = Len(ops2)
    /\ \A q \in WiresOf(ops1) \cup WiresOf(ops2) : WireOps(ops1, q) = WireOps(ops2, q)

\* The operations with their arguments on the physical qubits of a layout.
Relabel(ops, items) == [i \in DOMAIN ops |-> MappedOp(items, ops[i])]

\* Whether the default branch has to route: a coupling list is in force and
\* the circuit declares more than one qubit.
RoutingNeeded ==
    cm_res.kind = "list" /\ cm_res.edges # {} /\ SumSizes(t_in.circuit.qregs) # 1

(* ---- C1 ---- *)
\* C1: with a pass manager supplied, only its passes run, in its order, and
\* no default pass; with an empty one the returned circuit has the input's
\* registers and operations and no layout.
C1_CustomListReplacesDefault ==
    t_in.pass_manager.kind = "pm" =>
        /\ \A i \in DOMAIN trace : trace[i].by = "pm"
        /\ pc = "done" =>
             /\ trace = [i \in DOMAIN t_in.pass_manager.passes |->
                            CustomPass(t_in.pass_manager.passes[i])]
             /\ t_in.pass_manager.passes = <<>> =>
                  /\ out.circuit.qregs = t_in.circuit.qregs
                  /\ out.circuit.ops = t_in.circuit.ops
                  /\ final_layout = NoneLayout
                  /\ out.circuit.layout = NoneLayout

\* An empty pass manager returned a circuit the default passes would have
\* rewritten and routed.
C1_Witness ==
    /\ pc = "done"
    /\ t_in.pass_manager = PassManagerOf(<<>>)
    /\ RoutingNeeded
    /\ \E i \in DOMAIN t_in.circuit.ops : t_in.circuit.ops[i].name = "h"
    /\ out.circuit.ops = t_in.circuit.ops

(* ---- C2 ---- *)
ExpectedDefault ==
    IF RoutingNeeded
    THEN <<"unroll", "remove_last_measurements", "swap_mapper", "unroll", "direction_mapper",
           "cx_cancellation", "optimize_1q_gates", "return_last_measurements">>
    ELSE <<"unroll">>

\* C2: without a pass manager the passes run so far are always a prefix of
\* unroll, remove_last_measurements, swap_mapper, unroll, direction_mapper,
\* cx_cancellation, optimize_1q_gates, return_last_measurements (of unroll
\* alone when no routing is needed), and a finished run has run them all.
C2_DefaultPassOrder ==
    t_in.pass_manager.kind = "none" =>
        /\ Len(trace) <= Len(ExpectedDefault)
        /\ \A i \in DOMAIN trace : trace[i] = DefaultPass(ExpectedDefault[i])
        /\ pc = "done" => Len(trace) = Len(ExpectedDefault)

\* A default run with routing finished.
C2_Witness ==
    /\ pc = "done"
    /\ t_in.pass_manager.kind = "none"
    /\ Len(trace) = 8

(* ---- C3 ---- *)
\* C3 as claimed: for 1 <= n <= device qubits, _best_subset returns exactly
\* n pairwise distinct qubits of the device, whatever the coupling graph.
C3_ReturnsNDistinctQubits ==
    (bs_out # Pending /\ 1 <= bs_in.n /\ bs_in.n <= bs_in.dev) =>
        /\ bs_out.kind = "ok"
        /\ Len(bs_out.map) = bs_in.n
        /\ \A i, j \in DOMAIN bs_out.map : i # j => bs_out.map[i] # bs_out.map[j]
        /\ \A i \in DOMAIN bs_out.map : bs_out.map[i] \in 0 .. bs_in.dev - 1

(* ---- C4 ---- *)
\* C4: _best_subset raises "Number of qubits <= 0." for n <= 0, the other
\* error "Number of qubits greater than device." for n above the device's
\* qubit count, neither with a subset, and returns one qubit for n = 1.
C4_ErrorsByArgument ==
    bs_out # Pending =>
        /\ bs_in.n <= 0 =>
             /\ bs_out.kind = "err" /\ bs_out.err = "QiskitError"
             /\ bs_out.msg = "Number of qubits <= 0."
             /\ bs_out.map = <<>>
        /\ bs_in.n > bs_in.dev =>
             /\ bs_out.kind = "err" /\ bs_out.err = "QiskitError"
             /\ bs_out.msg = "Number of qubits greater than device."
             /\ bs_out.map = <<>>
        /\ bs_in.n = 1 => bs_out.kind = "ok" /\ Len(bs_out.map) = 1

\* A call for more qubits than the device has, on a coupled device, failed.
C4_Witness ==
    /\ bs_out.kind = "err"
    /\ bs_in.n > bs_in.dev
    /\ bs_in.edges # {}

(* ---- C5 ---- *)
\* Every 2-qubit operation of the input acts, under the layout the router
\* starts from, on a directed edge of the coupling map in force.
PairsCoupled ==
    /\ CouplingTruthy(cmap)
    /\ \A i \in DOMAIN InputDag.ops :
         Len(InputDag.ops[i].qargs) = 2 =>
            <<LayoutGet(StartLayout(InputDag, layout), InputDag.ops[i].qargs[1]),
              LayoutGet(StartLayout(InputDag, layout), InputDag.ops[i].qargs[2])>> \in cmap.edges

\* The unrolled input on the physical qubits of the starting layout.
RelabelledInput == Relabel(UnrolledInput.ops, StartLayout(InputDag, layout))

\* C5 as claimed: when every 2-qubit operation of the input already acts on
\* an edge of the coupling model, the router's output holds no swap and the
\* returned graph is the unrolled input, gate for gate.
C5_IdentityWhenMatched ==
    (t_in.pass_manager.kind = "none" /\ PairsCoupled) =>
        /\ pc = "expand_swaps" => \A i \in DOMAIN dag.ops : dag.ops[i].name # "swap"
        /\ pc = "done" => SameGraph(out.circuit.ops, RelabelledInput)

\* C5 as amended: when every 2-qubit operation of the input already acts on
\* an edge of the coupling model, the router returns the unrolled input
\* without its last measurements, relabelled and with no swap, and the
\* returned graph is the relabelled unrolled input after direction
\* correction, cx cancellation and single-qubit fusion.
C5_MatchedRoutesWithoutSwaps ==
    (t_in.pass_manager.kind = "none" /\ PairsCoupled) =>
        /\ pc = "expand_swaps" =>
             /\ \A i \in DOMAIN dag.ops : dag.ops[i].name # "swap"
             /\ dag.ops = Relabel(remove_last_measurements(UnrolledInput).ops,
                                  StartLayout(InputDag, layout))
        /\ pc = "done" =>
             SameGraph(out.circuit.ops,
                       optimize_1q_gates(cx_cancellation(direction_mapper(
                           [qregs |-> dag.qregs, ops |-> RelabelledInput], cmap.edges))).ops)

\* A matched circuit with a 2-qubit gate went through the router and the
\* optimizers, which rewrote it.
C5_Witness ==
    /\ pc = "done"
    /\ t_in.pass_manager.kind = "none"
    /\ PairsCoupled
    /\ Len(trace) = 8
    /\ \E i \in DOMAIN t_in.circuit.ops : t_in.circuit.ops[i].name = "cx"
    /\ ~SameGraph(out.circuit.ops, RelabelledInput)

(* ---- C6 ---- *)
\* No layout given, no simulator, and the coupling map does not match.
SelectorDue ==
    /\ t_in.initial_layout.kind = "none"
    /\ ~t_in.backend.simulator
    /\ matches_coupling_map(InputDag, cm_res) = MatchValue(FALSE)

\* C6: _pick_best_layout is invoked exactly when no layout was given, the
\* backend is no simulator and the coupling map does not match; otherwise
\* transpile_dag gets the caller's layout.
C6_SelectorOnlyWhenDue ==
    /\ pick_called => SelectorDue
    /\ pc = "pick" => SelectorDue
    /\ (pc \notin {"transpile", "transpilation", "pick"} /\ SelectorDue) => pick_called
    /\ (pc \notin {"transpile", "transpilation", "pick", "raised"} /\ ~pick_called) =>
          layout = t_in.initial_layout

\* The selector ran and the circuit was transpiled with its layout.
C6_Witness ==
    /\ pc = "done"
    /\ pick_called
    /\ layout # t_in.initial_layout

(* ---- C7 ---- *)
\* Every 2-qubit operation's physical pair (the positions of its qubits in
\* declaration order) is an edge of the model; an absent or "all-to-all"
\* model couples every pair.
EveryPairCoupled ==
    \/ cm_res.kind \in {"none", "all-to-all"}
    \/ \A i \in DOMAIN InputDag.ops :
         Len(InputDag.ops[i].qargs) = 2 =>
            <<FlatIndex(InputDag.qregs, InputDag.ops[i].qargs[1]),
              FlatIndex(InputDag.qregs, InputDag.ops[i].qargs[2])>> \in cm_res.edges

\* C7 as claimed: _matches_coupling_map returns true exactly when every
\* 2-qubit operation's physical pair is an edge of the coupling model.
C7_MatchesIffEveryPairCoupled ==
    match_res.kind # "unevaluated" => match_res = MatchValue(EveryPairCoupled)

(* ---------------------------------------------------------------- batches *)
\* What a task of circuit c may return or raise under the arguments of the
\* batch, over the draws of an unseeded generator.
TaskOutcomes(c) ==
    {transpilation(c, b_in.backend, ResolveCoupling(b_in.coupling_map, b_in.backend),
                   NoneLayout, RngOf(b_in.seed_mapper, e), NonePassManager) :
        e \in 0 .. MaxEntropy}

Returned(r) == b_out[r].kind \in {"list", "single"}

\* C8: when transpile returns, the i-th returned circuit is a transpilation
\* of the i-th input circuit in whatever order the tasks completed; one
\* circuit passed on its own comes back as one circuit, a list as a list of
\* the same length.
C8_ResultsInInputOrder ==
    \A r \in DOMAIN b_out :
        Returned(r) =>
            /\ (b_out[r].kind = "single") <=> b_in.single
            /\ Len(b_out[r].circuits) = Len(b_in.circuits)
            /\ \A i \in DOMAIN b_in.circuits :
                 OutCircuit(b_out[r].circuits[i]) \in TaskOutcomes(b_in.circuits[i])

\* A list of two different circuits whose second task completed first, and
\* whose results differ.
C8_Witness ==
    /\ b_out # <<>>
    /\ b_out[1].kind = "list"
    /\ Len(b_in.circuits) = 2
    /\ b_order = <<2, 1>>
    /\ b_in.circuits[1] # b_in.circuits[2]
    /\ b_out[1].circuits[1] # b_out[1].circuits[2]

\* C9 as claimed: once transpile is over for a batch of which a circuit
\* failed, the result holds an entry per circuit, the compiled circuit for
\* each circuit that did not fail.
C9_ErrorsIsolated ==
    \A r \in DOMAIN b_out :
        (b_out[r] # BatchPending /\ \E i \in DOMAIN b_in.circuits : b_res[r][i].kind = "err") =>
            /\ b_out[r].kind = "list"
            /\ Len(b_out[r].circuits) = Len(b_in.circuits)
            /\ \A i \in DOMAIN b_in.circuits :
                 b_res[r][i].kind = "ok" => b_out[r].circuits[i] = b_res[r][i].circuit

\* Both runs agree on every circuit both have completed, and on what
\* transpile returns or raises.
RunsAgree ==
    /\ \A i \in DOMAIN b_in.circuits :
         (b_res[1][i] # OutPending /\ b_res[2][i] # OutPending) => b_res[1][i] = b_res[2][i]
    /\ (b_out[1] # BatchPending /\ b_out[2] # BatchPending) => b_out[1] = b_out[2]

\* C10 as claimed: two runs of transpile on the same arguments, under any
\* interleaving of the workers and with or without a seed from the caller,
\* produce the same result for every circuit.
C10_RunsAgreeAlways == b_out # <<>> => RunsAgree

\* C10, amended: when the caller gives a seed, two runs of transpile on the
\* same arguments produce the same result for every circuit under any
\* interleaving of the workers.
C10_SeededRunsAgree == (b_out # <<>> /\ b_in.seed_mapper.kind = "int") => RunsAgree

\* Two seeded runs have returned the same list, whose first circuit was
\* routed with a swap (three cx more than its one), the first run having
\* completed its second task first.
C10_Witness ==
    /\ b_out # <<>>
    /\ b_in.seed_mapper.kind = "int"
    /\ b_out[1].kind = "list" /\ b_out[2].kind = "list"
    /\ b_order = <<2, 1>>
    /\ Cardinality({k \in DOMAIN b_out[1].circuits[1].ops :
                        b_out[1].circuits[1].ops[k].name = "cx"}) >= 4
    /\ b_out[2] = b_out[1]

(* ----------------------------------------------------------- _best_subset *)
\* The scenario of C11: four device qubits, qubit 1 coupled to the others.
Star == {<<0, 1>>, <<1, 2>>, <<1, 3>>}
StarCall == bs_in = [dev |-> 4, edges |-> Star, n |-> 3]

\* C11: on the coupling edges {(0,1),(1,2),(1,3)} with 4 device qubits,
\* _best_subset(3) returns 3 distinct qubits, qubit 1 among them.
C11_StarSubsetHasHub ==
    (StarCall /\ bs_out # Pending) =>
        /\ bs_out.kind = "ok"
        /\ Len(bs_out.map) = 3
        /\ Cardinality(SeqRange(bs_out.map)) = 3
        /\ 1 \in SeqRange(bs_out.map)

\* The call of the scenario has returned the breadth-first prefix of root 0.
C11_Witness == StarCall /\ bs_out = OkMap(<<0, 1, 2>>)

\* The roots whose breadth-first order has a prefix of n qubits.
RootsWithPrefix(dev, edges, n) ==
    {k \in 0 .. dev - 1 : Len(breadth_first_order(edges, k)) >= n}

\* The coupling edges with both endpoints among the first n qubits of the
\* breadth-first order from root k.
PrefixEdges(edges, k, n) ==
    {e \in edges : /\ e[1] \in SeqRange(SubSeq(breadth_first_order(edges, k), 1, n))
                   /\ e[2] \in SeqRange(SubSeq(breadth_first_order(edges, k), 1, n))}

\* k is the lowest-numbered root whose prefix has the greatest edge count.
IsEarliestBestRoot(dev, edges, n, k) ==
    /\ k \in RootsWithPrefix(dev, edges, n)
    /\ \A j \in RootsWithPrefix(dev, edges, n) :
         \/ Cardinality(PrefixEdges(edges, j, n)) < Cardinality(PrefixEdges(edges, k, n))
         \/ /\ Cardinality(PrefixEdges(edges, j, n)) = Cardinality(PrefixEdges(edges, k, n))
            /\ k <= j

\* C12 as claimed: for 2 <= n <= device size, _best_subset returns the first
\* n qubits of the breadth-first order from the lowest-numbered root whose
\* prefix holds the most coupling edges.
C12_EarliestBestRootWins ==
    (bs_out # Pending /\ bs_in.n >= 2 /\ bs_in.n <= bs_in.dev) =>
        \E k \in 0 .. bs_in.dev - 1 :
            /\ IsEarliestBestRoot(bs_in.dev, bs_in.edges, bs_in.n, k)
            /\ bs_out = OkMap(SubSeq(breadth_first_order(bs_in.edges, k), 1, bs_in.n))

(* ------------------------------------------------------ _pick_best_layout *)
\* The layout selector has run and returned a layout.
LayoutPicked == pick_called /\ layout.kind = "dict"

\* What _best_subset returns for the circuit of the run on its backend.
PickedSubset ==
    best_subset(t_in.backend.n_qubits, t_in.backend.coupling_map.edges,
                SumSizes(InputDag.qregs))

\* C13: the layout built by _pick_best_layout maps the j-th declared qubit
\* (registers in declaration order, indices increasing) to the j-th qubit
\* of the subset _best_subset returned; every declared qubit is assigned,
\* no two share a physical qubit, and the physical qubits used are those of
\* the subset.
C13_PickedLayoutIsBijection ==
    LayoutPicked =>
        /\ PickedSubset.kind = "ok"
        /\ Len(layout.items) = Len(QubitsOf(InputDag.qregs))
        /\ Len(layout.items) = Len(PickedSubset.map)
        /\ \A j \in DOMAIN layout.items :
             layout.items[j] = <<QubitsOf(InputDag.qregs)[j], PickedSubset.map[j]>>
        /\ \A i, j \in DOMAIN layout.items :
             i # j => /\ layout.items[i][1] # layout.items[j][1]
                      /\ layout.items[i][2] # layout.items[j][2]
        /\ {layout.items[j][2] : j \in DOMAIN layout.items} = SeqRange(PickedSubset.map)

\* A layout was picked for a circuit of two registers and three qubits.
C13_Witness ==
    /\ LayoutPicked
    /\ Len(InputDag.qregs) = 2
    /\ Len(layout.items) = 3

(* ----------------------------------------------------- unconstrained runs *)
\* The coupling map transpile_dag is given is absent or "all-to-all", or
\* the circuit declares one qubit in total.
Unconstrained ==
    \/ cm_res.kind \in {"none", "all-to-all"}
    \/ SumSizes(InputDag.qregs) = 1

\* C14: in the default pipeline, when the coupling model is unconstrained
\* or the circuit declares one qubit, no pass other than the first unroll
\* ever runs, no measurement is detached, and the final layout transpile_dag
\* returns and the one attached to the output circuit are None.
C14_UnconstrainedOnlyUnrolls ==
    (~UsesPassManager(t_in.pass_manager) /\ Unconstrained) =>
        /\ Len(trace) <= 1
        /\ \A i \in DOMAIN trace : trace[i] = DefaultPass("unroll")
        /\ removed_meas = <<>>
        /\ final_layout = NoneLayout
        /\ pc = "done" =>
             /\ trace = <<DefaultPass("unroll")>>
             /\ out = OutCircuit(fromDAGCircuit(UnrolledInput, NoneLayout))

\* A default run on "all-to-all" has returned for a circuit that holds a cx
\* and ends in a measurement.
C14_Witness ==
    /\ pc = "done"
    /\ ~UsesPassManager(t_in.pass_manager)
    /\ cm_res.kind = "all-to-all"
    /\ \E i \in DOMAIN t_in.circuit.ops : t_in.circuit.ops[i].name = "cx"
    /\ t_in.circuit.ops[Len(t_in.circuit.ops)].name = "measure"
    /\ out.circuit.layout = NoneLayout

(* ------------------------------------------- the trailing measurements *)
\* The positions of the default pass name in the passes run so far.
RunsOf(name) == {i \in DOMAIN trace : trace[i] = DefaultPass(name)}

\* The trailing operations of the dag are the detached measurements, each
\* on the physical qubit the layout lay gives its qubit.
TailIsRemovedThrough(lay) ==
    /\ Len(dag.ops) >= Len(removed_meas)
    /\ \A i \in DOMAIN removed_meas :
         dag.ops[Len(dag.ops) - Len(removed_meas) + i] =
            Op("measure", <<PhysQubit(LayoutGet(lay.items, removed_meas[i].qargs[1]))>>)

\* The measurements are reattached at most once, only after they were
\* detached and after the router and the optimizers; a finished run that
\* detached them has reattached the trailing measurements of the unrolled
\* input, rewritten through lay.
ReattachedThrough(lay) ==
    t_in.pass_manager.kind = "none" =>
        /\ Cardinality(RunsOf("return_last_measurements")) <= 1
        /\ \A i \in RunsOf("return_last_measurements") :
             /\ i = Len(trace)
             /\ \A name \in {"remove_last_measurements", "swap_mapper", "direction_mapper",
                             "cx_cancellation", "optimize_1q_gates"} :
                  \E j \in RunsOf(name) : j < i
        /\ (pc = "done" /\ RunsOf("remove_last_measurements") # {}) =>
             /\ Cardinality(RunsOf("return_last_measurements")) = 1
             /\ removed_meas = removed_last_measurements(UnrolledInput)
             /\ TailIsRemovedThrough(lay)

InstructionsNow == [i \in DOMAIN sv_qobj.experiments |-> sv_qobj.experiments[i].instructions]

\* C16: _run_job has appended exactly the final-state snapshot to every
\* experiment when the simulator runs, and when it returns every
\* experiment's instruction list is equal to its list before the call.
C16_InstructionsRestored ==
    /\ (sv_pc = "append" /\ sv_i > Len(sv_qobj.experiments)) =>
          InstructionsNow = [i \in DOMAIN sv_before |-> Append(sv_before[i], FinalSnapshot)]
    /\ sv_pc = "returned" => InstructionsNow = sv_before

\* _run_job has returned for two experiments, one of which ends in a
\* snapshot of the caller's own.
C16_Witness ==
    /\ sv_pc = "returned"
    /\ Len(sv_before) = 2
    /\ \E i \in DOMAIN sv_before :
         /\ sv_before[i] # <<>>
         /\ sv_before[i][Len(sv_before[i])].name = "snapshot"
    /\ InstructionsNow = sv_before

====
